---- MODULE Spec2Model ----
(***************************************************************************)
(* OpenSourceHub backend: the program catalog loader, the three HTTP       *)
(* endpoints of backend/main.py and the mentor function of                 *)
(* backend/agents/open_source_mentor.py.                                   *)
(*                                                                         *)
(* Text is a sequence of one-character strings (or of opaque chunks that    *)
(* hold no whitespace): str.strip() and str.lower() are computed on it.    *)
(* A JSON object is a function from the keys it holds to their values.     *)
(* An optional value is <<>> (None) or <<v>>.                              *)
(***************************************************************************)
EXTENDS Integers, Sequences, FiniteSets, TLC

VARIABLES
  SUBSCRIBED_EMAILS,  \* main.py:113, the in-memory subscriber list
  pc,                 \* subscribe-email: each in-flight request's position
  req,                \* subscribe-email: each in-flight request's payload and answer
  primaryFile,        \* programs.json as found on disk
  cacheFile,          \* frontend/programs-cache.json as found on disk
  phase,              \* "idle", or "responded" once a request has been answered
  request,            \* the GET /programs or POST /agent-chat request being answered
  response,           \* its HTTP response
  loaded,             \* what load_programs() returned while answering it
  service,            \* the condition of the external text-generation service
  mpc,                \* open_source_mentor_agent: position of the invocation
  margs,              \* open_source_mentor_agent: its arguments
  prompt,             \* the prompt handed to generate_content
  extCalls,           \* generate_content calls issued by the current request/invocation
  mresult             \* what open_source_mentor_agent returned

vars ==
  <<SUBSCRIBED_EMAILS, pc, req, primaryFile, cacheFile, phase, request, response,
    loaded, service, mpc, margs, prompt, extCalls, mresult>>

subVars == <<SUBSCRIBED_EMAILS, pc, req>>
httpVars == <<primaryFile, cacheFile, phase, request, response, loaded>>
mentorVars == <<mpc, margs, prompt, mresult>>

---------------------------------------------------------------------------
\* Bounds of the model.

\* Longest catalog array a JSON file holds.
MaxCatalog == 2
\* Longest chat message.
MaxMsg == 2
\* Longest catalog handed to the mentor (beyond the 8 entries it reads).
MaxPrograms == 9
\* Concurrent subscribe-email requests.
MaxHandlers == 2

---------------------------------------------------------------------------
\* Text.

None == <<>>
Some(v) == <<v>>

\* Characters str.strip() removes.
Whitespace == {" ", "\t", "\n", "\r"}

UpperCase == <<"A","B","C","D","E","F","G","H","I","J","K","L","M","N","O","P","Q","R","S","T","U","V","W","X","Y","Z">>
LowerCase == <<"a","b","c","d","e","f","g","h","i","j","k","l","m","n","o","p","q","r","s","t","u","v","w","x","y","z">>

LowerChar(c) ==
  IF \E i \in DOMAIN UpperCase : UpperCase[i] = c
  THEN LowerCase[CHOOSE i \in DOMAIN UpperCase : UpperCase[i] = c]
  ELSE c

\* str.lower()
Lower(s) == [i \in DOMAIN s |-> LowerChar(s[i])]

RECURSIVE LStrip(_)
LStrip(s) ==
  IF s # <<>> /\ Head(s) \in Whitespace THEN LStrip(Tail(s)) ELSE s

RECURSIVE RStrip(_)
RStrip(s) ==
  IF s # <<>> /\ s[Len(s)] \in Whitespace THEN RStrip(SubSeq(s, 1, Len(s) - 1)) ELSE s

\* str.strip()
Strip(s) == RStrip(LStrip(s))

\* Sequences over S of length at most n.
SeqsUpTo(S, n) == UNION {[1..k -> S] : k \in 0..n}

\* Python's slice s[:n].
Prefix(s, n) == SubSeq(s, 1, IF Len(s) < n THEN Len(s) ELSE n)

---------------------------------------------------------------------------
\* Program records (models.py) and the catalog files.

RequiredFields ==
  {"id", "name", "slug", "difficulty", "timeline", "deadline", "description", "official_site"}

ProgramFields == RequiredFields \cup {"program_type", "opens_in", "tags"}

\* The defaults of the optional fields of Program.
FieldDefault(f) ==
  CASE f = "program_type" -> "Open Source"
    [] f = "opens_in" -> ""
    [] f = "tags" -> <<>>

HasKey(p, k) == k \in DOMAIN p

\* Program(**p) raises a ValidationError when a required field is missing.
ValidProgram(p) == RequiredFields \subseteq DOMAIN p

\* Program(**p): the declared fields, defaults filled in, other keys ignored.
Program(p) ==
  [f \in ProgramFields |-> IF HasKey(p, f) THEN p[f] ELSE FieldDefault(f)]

intermediate == <<"i","n","t","e","r","m","e","d","i","a","t","e">>
beginner == <<"b","e","g","i","n","n","e","r">>
Beginner == <<"B","e","g","i","n","n","e","r">>
BEGINNER == <<"B","E","G","I","N","N","E","R">>
advanced == <<"a","d","v","a","n","c","e","d">>
expert == <<"e","x","p","e","r","t">>

\* The list load_programs returns when neither file can be used (the en dashes
\* of the timelines are written as hyphens).
LiteralFallback ==
  << [id |-> 1,
      name |-> "Google Summer of Code (GSoC)",
      slug |-> "gsoc",
      difficulty |-> intermediate,
      program_type |-> "Internship",
      timeline |-> "Applications Feb-Apr, coding May-Aug (varies by year)",
      opens_in |-> "March",
      deadline |-> "April 2, 2025",
      description |-> "Work with open source organizations on a 3-month programming project during your summer break.",
      official_site |-> "https://summerofcode.withgoogle.com/",
      tags |-> <<"Paid", "Remote", "Global">>],
     [id |-> 4,
      name |-> "Hacktoberfest",
      slug |-> "hacktoberfest",
      difficulty |-> intermediate,
      program_type |-> "Open Source",
      timeline |-> "October 1-31 every year",
      opens_in |-> "October",
      deadline |-> "October 31",
      description |-> "Month-long celebration of open source focused on submitting pull requests to participating repositories.",
      official_site |-> "https://hacktoberfest.com/",
      tags |-> <<"Remote", "Global">>] >>

\* A record of a catalog file holding every field.
FullRecord(n, diff) ==
  [id |-> n,
   name |-> "Program",
   slug |-> "program",
   difficulty |-> diff,
   program_type |-> "Mentorship",
   timeline |-> "All year",
   opens_in |-> "January",
   deadline |-> "Rolling",
   description |-> "A contribution program.",
   official_site |-> "https://example.org/",
   tags |-> <<"Remote">>]

\* The JSON object p without key k.
Without(p, k) == [f \in DOMAIN p \ {k} |-> p[f]]

\* The records the catalog files are drawn from: lower-case difficulty,
\* mixed-case difficulty, and one that lacks the required field "name".
FileRecords ==
  { FullRecord(10, beginner),
    FullRecord(11, Beginner),
    Without(FullRecord(12, advanced), "name") }

\* What a JSON file can be on disk: absent, present but unreadable, present
\* with text that is no JSON, or a JSON array (possibly empty).
JsonFile(data) == [kind |-> "json", data |-> data]
NoFile(kind) == [kind |-> kind, data |-> <<>>]

FileStates ==
  {NoFile("absent"), NoFile("unreadable"), NoFile("invalid")}
    \cup {JsonFile(d) : d \in SeqsUpTo(FileRecords, MaxCatalog)}

NotLoaded == [called |-> FALSE, data |-> <<>>, source |-> "none", cacheConsulted |-> FALSE]

\* load_programs with the two sources tried in the opposite order.
load_programs_cache_first(primary, cache) ==
  IF cache.kind = "json"
  THEN [called |-> TRUE, data |-> cache.data, source |-> "cache", cacheConsulted |-> TRUE]
  ELSE IF primary.kind = "json" /\ primary.data # <<>> /\ Len(primary.data) > 0
  THEN [called |-> TRUE, data |-> primary.data, source |-> "primary", cacheConsulted |-> TRUE]
  ELSE [called |-> TRUE, data |-> LiteralFallback, source |-> "literal", cacheConsulted |-> TRUE]

\* load_programs(): the primary file when it parses to a non-empty value, else
\* the cache file when it parses at all, else the literal list.
load_programs(primary, cache) ==
  IF primary.kind = "json" /\ primary.data # <<>> /\ Len(primary.data) > 0
  THEN [called |-> TRUE, data |-> primary.data, source |-> "primary", cacheConsulted |-> FALSE]
  ELSE IF cache.kind = "json"
  THEN [called |-> TRUE, data |-> cache.data, source |-> "cache", cacheConsulted |-> TRUE]
  ELSE [called |-> TRUE, data |-> LiteralFallback, source |-> "literal", cacheConsulted |-> TRUE]

\* get_programs_data()
get_programs_data == load_programs(primaryFile, cacheFile)

---------------------------------------------------------------------------
\* The external text-generation service and the fixed fallback text.

\* contribution_help, the text of the except branch (its lines as chunks).
contribution_help ==
  << "\n", " ",
     "Here's how to contribute to open source projects:", "\n",
     "**Git Workflow:**", "\n",
     "1. **Fork** the repository on GitHub", "\n",
     "2. **Clone** your fork: 'git clone your-fork-url'", "\n",
     "3. **Create branch**: 'git checkout -b feature-name'", "\n",
     "4. **Make changes** and test them", "\n",
     "5. **Commit**: 'git commit -m <msg>'", "\n",
     "6. **Push**: 'git push origin feature-name'", "\n",
     "7. **Pull Request**: Create PR on original repository", "\n",
     "8. **Merge**: Wait for maintainers to review and merge", "\n",
     "**Tips:**", "\n",
     "- Start with small issues labeled 'good first issue'", "\n",
     "- Read contribution guidelines in README.md", "\n",
     "- Test your changes thoroughly", "\n",
     "- Write clear commit messages", "\n",
     "What specific part would you like help with?", "\n", " " >>

\* What the except branch returns: contribution_help.strip().
FallbackText == Strip(contribution_help)

\* Texts the service answers with.
ServiceTexts ==
  { <<"F","o","r","k">>, <<" ","F","o","r","k","\n">>, <<"\n">>, <<>> }

\* Ways the call fails: the client cannot be configured, generate_content
\* raises (network, auth, quota), or it returns a response whose .text raises
\* (blocked or malformed).
ServiceFailures == {"config_error", "network_error", "auth_error", "quota_error", "malformed_response"}

ServiceUp(text) == [cond |-> "up", text |-> text]
ServiceDown(cond) == [cond |-> cond, text |-> <<>>]
NoService == [cond |-> "unused", text |-> <<>>]

ServiceConditions ==
  {ServiceUp(t) : t \in ServiceTexts} \cup {ServiceDown(c) : c \in ServiceFailures}

---------------------------------------------------------------------------
\* GET /programs and POST /agent-chat.

MsgChars == {" ", "h"}
Messages == SeqsUpTo(MsgChars, MaxMsg)

\* Values of the difficulty query parameter and of difficulty_filter.
Difficulties ==
  {None, Some(<<>>), Some(beginner), Some(Beginner), Some(BEGINNER), Some(advanced), Some(expert)}
ChatFilters == {None, Some(beginner), Some(Beginner)}
ChatServices == {ServiceUp(<<"F","o","r","k">>), ServiceDown("network_error"), ServiceDown("malformed_response")}

\* Python truth of an optional string: None and "" are false.
Truthy(opt) == opt # None /\ opt[1] # <<>>

NoRequest == [endpoint |-> "none", message |-> <<>>, difficulty |-> None]
NoResponse == [status |-> 0, body |-> <<>>, reply |-> <<>>, detail |-> ""]

Ok(body, reply) == [status |-> 200, body |-> body, reply |-> reply, detail |-> ""]
\* An exception that leaves the handler: the framework answers 500.
ServerError(exc) == [status |-> 500, body |-> <<>>, reply |-> <<>>, detail |-> exc]
HTTPException(code, detail) == [status |-> code, body |-> <<>>, reply |-> <<>>, detail |-> detail]

\* [Program(**p) for p in selected]
Programs(selected) ==
  IF \A i \in DOMAIN selected : ValidProgram(selected[i])
  THEN Ok([i \in DOMAIN selected |-> Program(selected[i])], <<>>)
  ELSE ServerError("ValidationError")

\* main.py:104-109: the filter of get_programs, p.get("difficulty") == difficulty.lower()
get_programs_result(programs_data, difficulty) ==
  IF Truthy(difficulty)
  THEN Programs(SelectSeq(programs_data,
                          LAMBDA p : HasKey(p, "difficulty") /\ p["difficulty"] = Lower(difficulty[1])))
  ELSE Programs(programs_data)

\* GET /programs?difficulty=...
get_programs(difficulty) ==
  /\ phase = "idle"
  /\ loaded' = get_programs_data
  /\ response' = get_programs_result(get_programs_data.data, difficulty)
  /\ request' = [endpoint |-> "programs", message |-> <<>>, difficulty |-> difficulty]
  /\ phase' = "responded"
  /\ UNCHANGED <<primaryFile, cacheFile, service, extCalls>>
  /\ UNCHANGED <<subVars, mentorVars>>

\* The test without the strip: not query.message
IsBlankNoStrip(message) == message = <<>>

\* main.py:131: not query.message.strip()
IsBlank(message) == Strip(message) = <<>>

\* main.py:144: open_source_mentor_agent is a coroutine function, and a function
\* object has no attribute "execute": the attribute lookup raises AttributeError
\* before anything is called.
agent_execute(payload) == [raised |-> TRUE, exc |-> "AttributeError", output |-> None]

\* main.py:147: str(agent_result.get("output", "Here are some programs that might fit you."))
reply_text(agent_result) ==
  IF agent_result.output # None THEN agent_result.output[1]
  ELSE <<"Here are some programs that might fit you.">>

\* main.py:150-158: the filter of agent_chat, p["difficulty"] == difficulty_filter.lower()
suggested_programs(programs_data, difficulty_filter) ==
  IF Truthy(difficulty_filter)
  THEN IF \E i \in DOMAIN programs_data : ~HasKey(programs_data[i], "difficulty")
       THEN ServerError("KeyError")
       ELSE Programs(SelectSeq(programs_data,
                               LAMBDA p : p["difficulty"] = Lower(difficulty_filter[1])))
  ELSE Programs(programs_data)

\* POST /agent-chat, met with the service in condition svc.
agent_chat(message, difficulty_filter, svc) ==
  /\ phase = "idle"
  /\ request' = [endpoint |-> "agent-chat", message |-> message, difficulty |-> difficulty_filter]
  /\ service' = svc
  /\ phase' = "responded"
  /\ IF IsBlank(message)
     THEN /\ response' = HTTPException(400, "Message cannot be empty")
          /\ loaded' = NotLoaded
     ELSE LET agent_result == agent_execute([input |-> message, context |-> difficulty_filter]) IN
          IF agent_result.raised
          THEN /\ response' = ServerError(agent_result.exc)
               /\ loaded' = NotLoaded
          ELSE LET programs == suggested_programs(get_programs_data.data, difficulty_filter) IN
               /\ loaded' = get_programs_data
               /\ response' = IF programs.status = 200
                              THEN Ok(programs.body, reply_text(agent_result))
                              ELSE programs
  /\ UNCHANGED <<primaryFile, cacheFile, extCalls>>
  /\ UNCHANGED <<subVars, mentorVars>>

\* The response is sent; the handler keeps nothing.
Deliver ==
  /\ phase = "responded"
  /\ phase' = "idle"
  /\ request' = NoRequest
  /\ response' = NoResponse
  /\ loaded' = NotLoaded
  /\ service' = NoService
  /\ UNCHANGED <<primaryFile, cacheFile, extCalls>>
  /\ UNCHANGED <<subVars, mentorVars>>

Emails == {"ada@example.org", "bob@example.org"}

InitIdle ==
  /\ pc = [h \in 1..MaxHandlers |-> "idle"]
  /\ req = [h \in 1..MaxHandlers |-> [email |-> "", status |-> ""]]
  /\ phase = "idle"
  /\ request = NoRequest
  /\ response = NoResponse
  /\ loaded = NotLoaded
  /\ service = NoService
  /\ mpc = "idle"
  /\ margs = [message |-> <<>>, programs |-> <<>>]
  /\ prompt = None
  /\ extCalls = 0
  /\ mresult = None

\* The request surface, started with any catalog files on disk and with the
\* subscriber list empty or already holding an address.
Init ==
  /\ InitIdle
  /\ SUBSCRIBED_EMAILS \in {<<>>, <<"ada@example.org">>}
  /\ primaryFile \in FileStates
  /\ cacheFile \in FileStates

Next ==
  \/ \E d \in Difficulties : get_programs(d)
  \/ \E m \in Messages, f \in ChatFilters, svc \in ChatServices : agent_chat(m, f, svc)
  \/ Deliver

Spec == Init /\ [][Next]_vars

---------------------------------------------------------------------------
\* POST /subscribe-email. The framework reads and validates the body (it may
\* yield to the event loop while doing so); the handler body holds no await
\* and runs as one step of the event loop.

RawEmails == Emails \cup {"not-an-email"}

\* EmailSubscription.email: EmailStr
ValidEmail(e) == e \in Emails

\* email in SUBSCRIBED_EMAILS
Subscribed(e) == \E i \in DOMAIN SUBSCRIBED_EMAILS : SUBSCRIBED_EMAILS[i] = e

\* The request reaches handler slot h; a malformed address is answered 422
\* without the handler body running.
Receive(h, raw) ==
  /\ pc[h] = "idle"
  /\ IF ValidEmail(raw)
     THEN /\ pc' = [pc EXCEPT ![h] = "ready"]
          /\ req' = [req EXCEPT ![h] = [email |-> raw, status |-> ""]]
     ELSE /\ pc' = [pc EXCEPT ![h] = "done"]
          /\ req' = [req EXCEPT ![h] = [email |-> raw, status |-> "422"]]
  /\ UNCHANGED <<SUBSCRIBED_EMAILS, service, extCalls>>
  /\ UNCHANGED <<httpVars, mentorVars>>

\* The handler body without its membership test.
subscribe_email_no_check(h) ==
  /\ pc[h] = "ready"
  /\ SUBSCRIBED_EMAILS' = Append(SUBSCRIBED_EMAILS, req[h].email)
  /\ req' = [req EXCEPT ![h].status = "subscribed"]
  /\ pc' = [pc EXCEPT ![h] = "done"]
  /\ UNCHANGED <<service, extCalls>>
  /\ UNCHANGED <<httpVars, mentorVars>>

\* The handler body with an await between the membership test and the append.
subscribe_email_await(h) ==
  /\ \/ /\ pc[h] = "ready"
        /\ Subscribed(req[h].email)
        /\ req' = [req EXCEPT ![h].status = "already_subscribed"]
        /\ pc' = [pc EXCEPT ![h] = "done"]
        /\ UNCHANGED SUBSCRIBED_EMAILS
     \/ /\ pc[h] = "ready"
        /\ ~Subscribed(req[h].email)
        /\ pc' = [pc EXCEPT ![h] = "absent"]
        /\ UNCHANGED <<SUBSCRIBED_EMAILS, req>>
     \/ /\ pc[h] = "absent"
        /\ SUBSCRIBED_EMAILS' = Append(SUBSCRIBED_EMAILS, req[h].email)
        /\ req' = [req EXCEPT ![h].status = "subscribed"]
        /\ pc' = [pc EXCEPT ![h] = "done"]
  /\ UNCHANGED <<service, extCalls>>
  /\ UNCHANGED <<httpVars, mentorVars>>

\* main.py:117-122, the handler body
subscribe_email(h) ==
  /\ pc[h] = "ready"
  /\ IF Subscribed(req[h].email)
     THEN /\ req' = [req EXCEPT ![h].status = "already_subscribed"]
          /\ UNCHANGED SUBSCRIBED_EMAILS
     ELSE /\ SUBSCRIBED_EMAILS' = Append(SUBSCRIBED_EMAILS, req[h].email)
          /\ req' = [req EXCEPT ![h].status = "subscribed"]
  /\ pc' = [pc EXCEPT ![h] = "done"]
  /\ UNCHANGED <<service, extCalls>>
  /\ UNCHANGED <<httpVars, mentorVars>>

\* The answer is sent and the slot is free again.
Respond(h) ==
  /\ pc[h] = "done"
  /\ pc' = [pc EXCEPT ![h] = "idle"]
  /\ req' = [req EXCEPT ![h] = [email |-> "", status |-> ""]]
  /\ UNCHANGED <<SUBSCRIBED_EMAILS, service, extCalls>>
  /\ UNCHANGED <<httpVars, mentorVars>>

InitSubscribe ==
  /\ InitIdle
  /\ SUBSCRIBED_EMAILS = <<>>
  /\ primaryFile = NoFile("absent")
  /\ cacheFile = NoFile("absent")

NextSubscribe ==
  \/ \E h \in 1..MaxHandlers, raw \in RawEmails : Receive(h, raw)
  \/ \E h \in 1..MaxHandlers : subscribe_email(h)
  \/ \E h \in 1..MaxHandlers : Respond(h)

SpecSubscribe == InitSubscribe /\ [][NextSubscribe]_vars

---------------------------------------------------------------------------
\* open_source_mentor_agent(message, programs).

\* programs[:8]
CONTEXT_LIMIT == 8

\* The keys the context line of a program reads with p[...].
ContextKeys == {"name", "description", "difficulty", "program_type", "deadline"}

\* "- {name}: {description} (Difficulty: ..., Type: ..., Deadline: ...)"
ContextLine(p) ==
  <<p["name"], p["description"], p["difficulty"], p["program_type"], p["deadline"]>>

\* Whether building the context raises KeyError.
ContextRaises(programs) ==
  \E i \in DOMAIN Prefix(programs, CONTEXT_LIMIT) : ~(ContextKeys \subseteq DOMAIN programs[i])

\* The prompt: the fixed template around the context lines and the message.
BuildPrompt(message, programs) ==
  [context |-> [i \in DOMAIN Prefix(programs, CONTEXT_LIMIT) |-> ContextLine(programs[i])],
   message |-> message]

\* An except clause that names the transport errors only.
CaughtTransportOnly(exc) == exc \in {"network_error", "auth_error", "quota_error"}

\* except Exception as e
Caught(exc) == TRUE

\* An exception raised inside the try block.
Raise(exc) ==
  IF Caught(exc)
  THEN /\ mpc' = "returned"
       /\ mresult' = Some(FallbackText)
  ELSE /\ mpc' = "raised"
       /\ mresult' = None

MentorBase(n) == [i \in 1..n |-> FullRecord(i, beginner)]

\* Records that lack one field: an optional one the context reads, an optional
\* one it does not read, and a required one.
MentorOddRecords ==
  { Without(FullRecord(20, beginner), "program_type"),
    Without(FullRecord(21, Beginner), "tags"),
    Without(FullRecord(22, advanced), "name") }

\* Catalogs of up to MaxPrograms records, at most one of them odd.
MentorCatalogs ==
  {MentorBase(n) : n \in 0..MaxPrograms}
    \cup UNION { UNION { {[MentorBase(n) EXCEPT ![k] = r] : r \in MentorOddRecords}
                         : k \in 1..n } : n \in 1..MaxPrograms }

\* Lines 25-65: configure the client, build the context and the prompt, and
\* issue the one generate_content call.
MentorInvoke(message, programs, svc) ==
  /\ mpc = "idle"
  /\ margs' = [message |-> message, programs |-> programs]
  /\ service' = svc
  /\ IF svc.cond = "config_error"
     THEN Raise("config_error") /\ UNCHANGED <<prompt, extCalls>>
     ELSE IF ContextRaises(programs)
     THEN Raise("KeyError") /\ UNCHANGED <<prompt, extCalls>>
     ELSE /\ prompt' = Some(BuildPrompt(message, programs))
          /\ extCalls' = extCalls + 1
          /\ mpc' = "calling"
          /\ mresult' = None
  /\ UNCHANGED <<subVars, httpVars>>

\* Lines 65-66: the call returns or raises; response.text.strip() on success.
ServiceRespond ==
  /\ mpc = "calling"
  /\ IF service.cond = "up"
     THEN /\ mpc' = "returned"
          /\ mresult' = Some(Strip(service.text))
     ELSE Raise(service.cond)
  /\ UNCHANGED <<margs, prompt, service, extCalls>>
  /\ UNCHANGED <<subVars, httpVars>>

\* The caller has the result; nothing is kept between invocations.
MentorReturn ==
  /\ mpc \in {"returned", "raised"}
  /\ mpc' = "idle"
  /\ margs' = [message |-> <<>>, programs |-> <<>>]
  /\ service' = NoService
  /\ prompt' = None
  /\ extCalls' = 0
  /\ mresult' = None
  /\ UNCHANGED <<subVars, httpVars>>

NextMentor ==
  \/ /\ mpc = "idle"
     /\ \E m \in Messages, c \in MentorCatalogs, svc \in ServiceConditions : MentorInvoke(m, c, svc)
  \/ ServiceRespond
  \/ MentorReturn

SpecMentor == InitSubscribe /\ [][NextMentor]_vars

---------------------------------------------------------------------------
\* Properties.

\* How often e occurs in the subscriber list.
Occurrences(e) == Cardinality({i \in DOMAIN SUBSCRIBED_EMAILS : SUBSCRIBED_EMAILS[i] = e})

NoDuplicates == \A e \in RawEmails : Occurrences(e) <= 1

\* A step in which the handler body of some request runs.
C1_HandlerStep ==
  \A h \in 1..MaxHandlers :
    (pc[h] = "ready" /\ pc'[h] = "done") =>
      IF Occurrences(req[h].email) = 0
      THEN /\ req'[h].status = "subscribed"
           /\ SUBSCRIBED_EMAILS' = Append(SUBSCRIBED_EMAILS, req[h].email)
           /\ Len(SUBSCRIBED_EMAILS') = Len(SUBSCRIBED_EMAILS) + 1
      ELSE /\ req'[h].status = "already_subscribed"
           /\ SUBSCRIBED_EMAILS' = SUBSCRIBED_EMAILS

\* No step removes or reorders a subscriber.
C1_NeverShrinks ==
  /\ Len(SUBSCRIBED_EMAILS') >= Len(SUBSCRIBED_EMAILS)
  /\ SubSeq(SUBSCRIBED_EMAILS', 1, Len(SUBSCRIBED_EMAILS)) = SUBSCRIBED_EMAILS

\* C1: starting from the empty subscriber list, a request for an address that
\* is not yet subscribed answers "subscribed" and appends exactly that one
\* address; a request for a subscribed address answers "already_subscribed"
\* and changes nothing; no address is ever held twice, and the list never
\* shrinks.
C1_SubscribeOnce ==
  /\ []NoDuplicates
  /\ [][C1_HandlerStep /\ C1_NeverShrinks]_vars

\* A second request for the one subscribed address has been answered.
C1_Witness ==
  \E h \in 1..MaxHandlers :
    /\ pc[h] = "done"
    /\ req[h].status = "already_subscribed"
    /\ SUBSCRIBED_EMAILS = <<req[h].email>>

\* C2: among the requests in flight at the same time, at most one per address
\* has been answered "subscribed", and the address is held at most once.
C2_AtMostOneSubscribed ==
  \A e \in Emails :
    /\ Cardinality({h \in 1..MaxHandlers :
                      pc[h] = "done" /\ req[h].email = e /\ req[h].status = "subscribed"}) <= 1
    /\ Occurrences(e) <= 1

\* Two requests for the same address were in flight together and both have run.
C2_Witness ==
  \E g, h \in 1..MaxHandlers :
    /\ g # h
    /\ pc[g] = "done" /\ pc[h] = "done"
    /\ req[g].email = req[h].email
    /\ req[g].status = "subscribed"
    /\ req[h].status = "already_subscribed"
    /\ Occurrences(req[g].email) = 1

\* Whether every character of the message is whitespace (the empty message too).
AllWhitespace(m) == \A i \in DOMAIN m : m[i] \in Whitespace

\* The catalog filtered by a difficulty, both sides compared without case.
FilteredAnyCase(catalog, d) ==
  SelectSeq(catalog, LAMBDA p : HasKey(p, "difficulty") /\ Lower(p["difficulty"]) = Lower(d))

\* The catalog as the filter of the request selects it.
ExpectedPrograms(catalog, opt) ==
  LET selected == IF Truthy(opt) THEN FilteredAnyCase(catalog, opt[1]) ELSE catalog
  IN [i \in DOMAIN selected |-> Program(selected[i])]

\* C3: a chat request with a non-blank message, met with a failing service, is
\* answered 200 with the fallback text as reply and the filtered catalog as
\* suggested_programs.
C3_FallbackReply ==
  ( /\ phase = "responded"
    /\ request.endpoint = "agent-chat"
    /\ ~AllWhitespace(request.message)
    /\ service.cond \in ServiceFailures )
  => /\ response.status = 200
     /\ response.reply = FallbackText
     /\ response.body = ExpectedPrograms(get_programs_data.data, request.difficulty)

\* A step that answers a chat request whose message is blank.
C4_BlankStep ==
  ( /\ phase = "idle" /\ phase' = "responded"
    /\ request'.endpoint = "agent-chat"
    /\ AllWhitespace(request'.message) )
  => /\ response'.status = 400
     /\ extCalls' = extCalls
     /\ ~loaded'.called
     /\ SUBSCRIBED_EMAILS' = SUBSCRIBED_EMAILS

\* C4: a chat request whose message is empty or all whitespace is answered
\* 400; answering it issues no external call, does not load the catalog and
\* leaves the subscriber list as it was.
C4_BlankRejected == [][C4_BlankStep]_vars

\* A message of two spaces has been answered 400 with a subscriber on the list.
C4_Witness ==
  /\ phase = "responded"
  /\ request.endpoint = "agent-chat"
  /\ request.message = <<" ", " ">>
  /\ response.status = 400
  /\ SUBSCRIBED_EMAILS # <<>>

\* C5: whatever the two files are, load_programs returns at least one entry.
C5_NeverEmpty == loaded.called => Len(loaded.data) >= 1

\* C6: with every record of the catalog a valid Program and a non-empty
\* difficulty value, GET /programs answers 200 with exactly the entries whose
\* difficulty equals the value when case is ignored, in catalog order.
C6_CaseInsensitiveFilter ==
  ( /\ phase = "responded"
    /\ request.endpoint = "programs"
    /\ Truthy(request.difficulty)
    /\ \A i \in DOMAIN loaded.data : ValidProgram(loaded.data[i]) )
  => /\ response.status = 200
     /\ response.body = ExpectedPrograms(loaded.data, request.difficulty)

NonEmptyList(f) == f.kind = "json" /\ Len(f.data) >= 1

C8_InvalidRecordSurfaces ==
  ( /\ phase = "responded"
    /\ request.endpoint = "programs"
    /\ \E i \in DOMAIN loaded.data : ~ValidProgram(loaded.data[i]) )
  => response.status >= 500

\* Whether a step of the invocation up to and including the call fails.
MentorStepFails ==
  \/ service.cond \in ServiceFailures
  \/ \E i \in 1..Len(margs.programs) :
       i <= CONTEXT_LIMIT /\ ~(ContextKeys \subseteq DOMAIN margs.programs[i])

\* C9: the mentor never raises; when a step fails it returns the one fallback
\* text, whatever the cause and the message; and it issues at most one
\* external call per invocation.
C9_NeverRaises ==
  /\ mpc # "raised"
  /\ extCalls <= 1
  /\ (mpc = "returned" /\ MentorStepFails) => mresult = Some(FallbackText)

\* A quota failure of the one call issued for a non-empty message was answered
\* with the fallback text.
C9_Witness ==
  /\ mpc = "returned"
  /\ service.cond = "quota_error"
  /\ margs.message # <<>>
  /\ extCalls = 1
  /\ mresult = Some(FallbackText)

\* C10: with every record a valid Program and the service up, the mentor calls
\* the service once with the prompt built from the first 8 entries and returns
\* the stripped text of the answer.
C10_ReturnsServiceText ==
  ( /\ mpc = "returned"
    /\ service.cond = "up"
    /\ \A i \in DOMAIN margs.programs : ValidProgram(margs.programs[i]) )
  => /\ extCalls = 1
     /\ prompt # None
     /\ Len(prompt[1].context) = (IF Len(margs.programs) < 8 THEN Len(margs.programs) ELSE 8)
     /\ mresult = Some(Strip(service.text))
     /\ mresult # Some(FallbackText)

====
